---------------------------- MODULE Spec2Model ----------------------------
(***************************************************************************)
(* Boids in the browser: the vector-based Boid and Vector classes, the     *)
(* Flock that drives them (Flock.js), and the two earlier, direction-based *)
(* Flock iterations with their culling moveFlock.                          *)
(*                                                                         *)
(* Numbers.  A JavaScript number is modelled as a fixed-point value: the   *)
(* integer n stands for n / Scale.  Three more values stand for the        *)
(* non-finite doubles: PInf, NInf and NaN.  Every arithmetic operator      *)
(* below follows the IEEE-754 rules for them (x/0, Inf-Inf, 0*Inf, NaN     *)
(* comparisons are false, ...); finite results are truncated toward zero   *)
(* to the grid.                                                            *)
(***************************************************************************)
EXTENDS Integers, Sequences, FiniteSets, TLC

VARIABLES
    iteration,    \* which Flock class runs: "Flock.js", "part_005" or "part_004"
    canvas,       \* the canvas element: width, height, clientWidth, clientHeight
    initialSize,  \* the initialSize argument of new Flock(canvas, window, initialSize)
    boids,        \* Flock.boids of the vector-based flock (Flock.js)
    dboids,       \* Flock.boids of the direction-based flocks (part_005, part_004)
    pc,           \* where the flock stands: "constructor", "idle", "rules", "move"
    idx,          \* loop index i of the running loop (0-based, as in the code)
    start,        \* Flock.boids as they were when the current moveFlock started
    ticks,        \* number of moveFlock calls started so far
    built,        \* Flock.boids as the constructor left them
    applied,      \* indices whose applyRules has returned in the current moveFlock
    moved,        \* indices whose move has returned in the current moveFlock
    sizeBefore,   \* Flock.size() when the last moveFlock was entered
    left,         \* boids found outside the bounds by the last culling moveFlock
    heap,         \* the arrays allocated so far, by allocation order
    raws,         \* the arrays a caller of Vector holds: heap index and contents
    vectors,      \* the Vector objects: heap index of this.values, and contents
    call,         \* the method call under study: its name, receiver and arguments
    returned      \* what that call returned

flockVars == <<iteration, canvas, initialSize, boids, dboids, pc, idx, start, ticks,
               built, applied, moved, sizeBefore, left>>
heapVars == <<heap, raws, vectors>>
callVars == <<call, returned>>

vars == <<flockVars, heapVars, callVars>>

----------------------------------------------------------------------------
(* Numbers *)

Scale == 100
PInf == 1000000000
NInf == -PInf
NaN == 1000000001

IsNaN(a) == a = NaN
IsFinite(a) == a > NInf /\ a < PInf

Abs(a) == IF a < 0 THEN -a ELSE a
Sign(a) == IF a < 0 THEN -1 ELSE IF a > 0 THEN 1 ELSE 0

\* integer division truncating toward zero
TruncDiv(a, b) == Sign(a) * Sign(b) * (Abs(a) \div Abs(b))

\* a + b
FAdd(a, b) ==
    IF IsNaN(a) \/ IsNaN(b) THEN NaN
    ELSE IF IsFinite(a) /\ IsFinite(b) THEN a + b
    ELSE IF IsFinite(a) THEN b
    ELSE IF IsFinite(b) THEN a
    ELSE IF a = b THEN a ELSE NaN

\* -a
FNeg(a) == IF IsNaN(a) THEN NaN ELSE -a

\* a - b
FSub(a, b) == FAdd(a, FNeg(b))

\* a * b
FMul(a, b) ==
    IF IsNaN(a) \/ IsNaN(b) THEN NaN
    ELSE IF IsFinite(a) /\ IsFinite(b) THEN TruncDiv(a * b, Scale)
    ELSE IF a = 0 \/ b = 0 THEN NaN
    ELSE IF Sign(a) = Sign(b) THEN PInf ELSE NInf

\* a / b
FDiv(a, b) ==
    IF IsNaN(a) \/ IsNaN(b) THEN NaN
    ELSE IF IsFinite(a) /\ IsFinite(b) THEN
        IF b # 0 THEN TruncDiv(a * Scale, b)
        ELSE IF a = 0 THEN NaN
        ELSE IF a > 0 THEN PInf ELSE NInf
    ELSE IF IsFinite(a) THEN 0
    ELSE IF IsFinite(b) THEN (IF b >= 0 THEN a ELSE -a)
    ELSE NaN

\* comparisons: every comparison with NaN is false
FLt(a, b) == ~IsNaN(a) /\ ~IsNaN(b) /\ a < b
FLe(a, b) == ~IsNaN(a) /\ ~IsNaN(b) /\ a <= b
FGt(a, b) == FLt(b, a)

RECURSIVE ISqrtIter(_, _, _)
\* the largest r in lo..hi with r * r <= n, by bisection
ISqrtIter(n, lo, hi) ==
    IF lo >= hi THEN lo
    ELSE LET mid == (lo + hi + 1) \div 2
         IN  IF mid * mid <= n THEN ISqrtIter(n, mid, hi)
             ELSE ISqrtIter(n, lo, mid - 1)

ISqrt(n) == ISqrtIter(n, 0, 46340)

\* Math.sqrt(a)
FSqrt(a) ==
    IF IsNaN(a) \/ a = NInf THEN NaN
    ELSE IF a = PInf THEN PInf
    ELSE IF a < 0 THEN NaN
    ELSE ISqrt(a * Scale)

\* Math.sqrt(Math.pow(a, 2) + Math.pow(b, 2)); the squares of two finite values
\* are summed at full precision, so that a short vector keeps a non-zero length
Hypot(a, b) ==
    IF IsNaN(a) \/ IsNaN(b) THEN NaN
    ELSE IF IsFinite(a) /\ IsFinite(b) THEN ISqrt(a * a + b * b)
    ELSE PInf

\* Math.abs(a)
FAbs(a) == IF IsNaN(a) THEN NaN ELSE Abs(a)

\* a || d for numbers: 0 and NaN are falsy
OrDefault(a, d) == IF a = 0 \/ IsNaN(a) THEN d ELSE a

----------------------------------------------------------------------------
(* class Vector: a vector is its values array <<x, y>> *)

Zero == <<0, 0>>

add(u, v) == <<FAdd(u[1], v[1]), FAdd(u[2], v[2])>>

subtract(u, v) == <<FSub(u[1], v[1]), FSub(u[2], v[2])>>

length(u) == Hypot(u[1], u[2])

normalize(u) ==
    LET magnitude == length(u)
    IN  IF magnitude # 0
        THEN <<FDiv(u[1], magnitude), FDiv(u[2], magnitude)>>
        ELSE Zero

scale(u, s) == <<FMul(u[1], s), FMul(u[2], s)>>

limit(u, m) ==
    IF FGt(length(u), m) THEN scale(normalize(u), m) ELSE u

getX(u) == u[1]
getY(u) == u[2]

IsFiniteVec(u) == IsFinite(u[1]) /\ IsFinite(u[2])

----------------------------------------------------------------------------
(* Angles.  An angle is modelled by its unit vector <<cos, sin>>, so that    *)
(* Math.atan2, the difference of two angles and the comparison of an        *)
(* absolute angle with the field of view are computed without trigonometric *)
(* tables.  NaNAngle is the angle NaN.                                       *)

NaNAngle == <<NaN, NaN>>

\* one coordinate of an atan2 argument pair with an infinite member:
\* the infinite coordinates dominate
InfPart(a) == IF IsFinite(a) THEN 0 ELSE Sign(a) * Scale

\* Math.atan2(y, x); Math.atan2(0, 0) is 0
Atan2(y, x) ==
    IF IsNaN(y) \/ IsNaN(x) THEN NaNAngle
    ELSE IF ~IsFinite(y) \/ ~IsFinite(x) THEN normalize(<<InfPart(x), InfPart(y)>>)
    ELSE IF x = 0 /\ y = 0 THEN <<Scale, 0>>
    ELSE normalize(<<x, y>>)

\* the angle a - b
AngleMinus(a, b) ==
    <<FAdd(FMul(a[1], b[1]), FMul(a[2], b[2])),
      FSub(FMul(a[2], b[1]), FMul(a[1], b[2]))>>

\* cos(Math.PI - Math.PI / 4), the cosine of the field of view
CosFov == -((7071 * Scale) \div 10000)

\* Math.abs(a) <= fov for an angle a in (-PI, PI]: its cosine is at least cos(fov)
AbsAngleWithin(a, cosFov) == FLe(cosFov, a[1])

\* Angles of the direction-based boids are counted in steps of Math.PI / 30:
\* HalfTurn steps make Math.PI
HalfTurn == 30

\* 10000 * cos(k * Math.PI / 30) for k = 0..15
CosTable == <<10000, 9945, 9781, 9511, 9135, 8660, 8090, 7431,
              6691, 5878, 5000, 4067, 3090, 2079, 1045, 0>>

\* Math.cos(a)
Cos(a) ==
    IF ~IsFinite(a) THEN NaN
    ELSE LET k == a % (2 * HalfTurn)
             m == IF k > HalfTurn THEN 2 * HalfTurn - k ELSE k
             c == IF 2 * m <= HalfTurn THEN CosTable[m + 1]
                  ELSE -CosTable[HalfTurn - m + 1]
         IN  TruncDiv(c * Scale, 10000)

\* Math.sin(a)
Sin(a) == IF ~IsFinite(a) THEN NaN ELSE Cos(a - HalfTurn \div 2)

\* Math.atan2(Math.sin(d), Math.cos(d)): the angle d brought into [-PI, PI]
NormAngle(d) ==
    IF ~IsFinite(d) THEN NaN
    ELSE IF d % (2 * HalfTurn) = HalfTurn THEN (IF d > 0 THEN HalfTurn ELSE -HalfTurn)
    ELSE ((d + HalfTurn) % (2 * HalfTurn)) - HalfTurn

----------------------------------------------------------------------------
(* class Boid (vector-based).  A boid is a record of its fields; `self` is   *)
(* the index of `this` in the boids array bs (0 when it is not an element).     *)

\* the value of a missing argument or property
Undefined == NaN

\* the JavaScript value false, as returned by wallAvoidance
False == << >>

pointImpulseCoeff == 15 * Scale
separationCoeff == 10 * Scale
WeightSeparation == Scale
WeightCohesion == Scale
WeightAlignment == (14 * Scale) \div 10
WeightAvoidance == (17 * Scale) \div 10

\* new Boid(startX, startY, size, speed), with the two Math.random() results
\* r1, r2 of the velocity
Boid(startX, startY, size, speed, r1, r2) ==
    [ size       |-> OrDefault(size, 15 * Scale),
      radius     |-> FMul(OrDefault(size, 15 * Scale), 4 * Scale),
      position   |-> <<OrDefault(startX, 10 * Scale), OrDefault(startY, 10 * Scale)>>,
      velocity   |-> <<FSub(FMul(r1, 4 * Scale), 2 * Scale),
                       FSub(FMul(r2, 4 * Scale), 2 * Scale)>>,
      maxImpulse |-> OrDefault(speed, 5 * Scale) ]

angleTo(this, x, y) ==
    Atan2(FSub(y, getY(this.position)), FSub(x, getX(this.position)))

distanceTo(this, x, y) ==
    Hypot(FSub(x, getX(this.position)), FSub(y, getY(this.position)))

distanceBetweenAngles(a, b) == AngleMinus(a, b)

getDirection(this) ==
    angleTo(this, FAdd(getX(this.position), getX(this.velocity)),
                  FAdd(getY(this.position), getY(this.velocity)))

\* canSee without its test of the distance
canSee_AnyDistance(this, x, y) ==
    LET direction == getDirection(this)
        relDirection == direction
        targetAngle == angleTo(this, x, y)
    IN  AbsAngleWithin(distanceBetweenAngles(targetAngle, relDirection), CosFov)

canSee(this, x, y) ==
    LET direction == getDirection(this)
        distance == distanceTo(this, x, y)
    IN  /\ FLe(distance, this.radius)
        /\ LET relDirection == direction   \* direction is never above Math.PI
               targetAngle == angleTo(this, x, y)
           IN  AbsAngleWithin(distanceBetweenAngles(targetAngle, relDirection), CosFov)

\* pointImpulse with the test of the near-field distance made first
pointImpulse_NearFirst(this, point) ==
    LET diff == subtract(point, this.position)
        dist == length(diff)
        impulse ==
            IF FLe(dist, pointImpulseCoeff)
            THEN scale(normalize(diff),
                       FDiv(Scale, FDiv(FMul(length(this.velocity), dist),
                                        pointImpulseCoeff)))
            ELSE IF FLt(dist, FDiv(this.radius, 2 * Scale)) THEN Zero
            ELSE scale(normalize(diff), length(this.velocity))
    IN  limit(impulse, this.maxImpulse)

pointImpulse(this, point) ==
    LET diff == subtract(point, this.position)
        dist == length(diff)
        impulse ==
            IF FLt(dist, FDiv(this.radius, 2 * Scale)) THEN Zero
            ELSE IF FLe(dist, pointImpulseCoeff)
            THEN scale(normalize(diff),
                       FDiv(Scale, FDiv(FMul(length(this.velocity), dist),
                                        pointImpulseCoeff)))
            ELSE scale(normalize(diff), length(this.velocity))
    IN  limit(impulse, this.maxImpulse)

\* the test of the loops without boids[i] != this
Visible_WithSelf(this, self, bs, i) ==
    canSee(this, getX(bs[i].position), getY(bs[i].position))

\* boids[i] != this && this.canSee(boids[i].position.getX(), boids[i].position.getY())
Visible(this, self, bs, i) ==
    /\ i # self
    /\ canSee(this, getX(bs[i].position), getY(bs[i].position))

\* indices of the neighbours that pass the test of the loop i, in loop order
RECURSIVE SumOver(_, _, _)
\* sum of f[i] over the sequence of indices s, added in order
SumOver(f, s, acc) ==
    IF s = << >> THEN acc ELSE SumOver(f, Tail(s), add(acc, f[Head(s)]))

RECURSIVE SelectIdx(_, _, _)
\* the indices i..n that satisfy ok[i], ascending
SelectIdx(ok, i, n) ==
    IF i > n THEN << >>
    ELSE IF ok[i] THEN <<i>> \o SelectIdx(ok, i + 1, n)
    ELSE SelectIdx(ok, i + 1, n)

\* the neighbours separation would count if it compared the distance to the
\* neighbour with size + size + separationCoeff
SeparationCounted_AsDocumented(this, self, bs) ==
    SelectIdx([i \in 1..Len(bs) |->
                 /\ Visible(this, self, bs, i)
                 /\ LET distance == distanceTo(this, getX(bs[i].position), getY(bs[i].position))
                        sep == FAdd(FAdd(this.size, bs[i].size), separationCoeff)
                    IN  FGt(sep, 0) /\ FLt(distance, sep)],
              1, Len(bs))

\* the neighbours that separation counts
SeparationCounted(this, self, bs) ==
    SelectIdx([i \in 1..Len(bs) |->
                 /\ Visible(this, self, bs, i)
                 /\ LET distance == distanceTo(this, Undefined, Undefined)
                        sep == FAdd(FAdd(this.size, bs[i].size),
                                    FMul(25 * Scale, separationCoeff))
                    IN  FGt(sep, 0) /\ FLt(sep, distance)],
              1, Len(bs))

separation(this, self, bs) ==
    LET counted == SeparationCounted(this, self, bs)
        count == Len(counted)
        sep(i) == FAdd(FAdd(this.size, bs[i].size), FMul(25 * Scale, separationCoeff))
        sum == SumOver([i \in 1..Len(bs) |->
                          scale(normalize(subtract(this.position, bs[i].position)),
                                sep(i))],
                       counted, Zero)
        result == IF count > 0
                  THEN subtract(scale(normalize(scale(sum, FDiv(Scale, count * Scale))),
                                      length(this.velocity)),
                                this.velocity)
                  ELSE sum
    IN  limit(result, this.maxImpulse)

\* the neighbours that alignment and cohesion count
VisibleNeighbours(this, self, bs) ==
    SelectIdx([i \in 1..Len(bs) |-> Visible(this, self, bs, i)], 1, Len(bs))

\* alignment without its count > 0 test
alignment_NoCountTest(this, self, bs) ==
    LET seen == VisibleNeighbours(this, self, bs)
        count == Len(seen)
        sum == SumOver([i \in 1..Len(bs) |-> bs[i].velocity], seen, Zero)
    IN  limit(subtract(scale(normalize(scale(sum, FDiv(Scale, count * Scale))),
                             length(this.velocity)),
                       this.velocity),
              this.maxImpulse)

\* alignment without the canSee test of its loop: every other boid counts
alignment_AllNeighbours(this, self, bs) ==
    LET seen == SelectIdx([i \in 1..Len(bs) |-> i # self], 1, Len(bs))
        count == Len(seen)
        sum == SumOver([i \in 1..Len(bs) |-> bs[i].velocity], seen, Zero)
    IN  IF count > 0
        THEN limit(subtract(scale(normalize(scale(sum, FDiv(Scale, count * Scale))),
                                  length(this.velocity)),
                            this.velocity),
                   this.maxImpulse)
        ELSE Zero

alignment(this, self, bs) ==
    LET seen == VisibleNeighbours(this, self, bs)
        count == Len(seen)
        sum == SumOver([i \in 1..Len(bs) |-> bs[i].velocity], seen, Zero)
    IN  IF count > 0
        THEN limit(subtract(scale(normalize(scale(sum, FDiv(Scale, count * Scale))),
                                  length(this.velocity)),
                            this.velocity),
                   this.maxImpulse)
        ELSE Zero

\* the point cohesion passes to pointImpulse: sum, as the loop left it; the
\* result of sum.scale(1 / count) is dropped
CohesionTarget(this, self, bs) ==
    SumOver([i \in 1..Len(bs) |-> bs[i].position], VisibleNeighbours(this, self, bs), Zero)

cohesion(this, self, bs) ==
    LET seen == VisibleNeighbours(this, self, bs)
        count == Len(seen)
        sum == CohesionTarget(this, self, bs)
    IN  IF count > 0
        THEN pointImpulse(this, sum)
        ELSE sum

\* one of the four wall points is visible
SeesWall(this, width, height) ==
    LET x == getX(this.position)
        y == getY(this.position)
    IN  \/ canSee(this, 0, y)
        \/ canSee(this, x, 0)
        \/ canSee(this, width, y)
        \/ canSee(this, x, height)

wallAvoidance(this, width, height) ==
    IF SeesWall(this, width, height)
    THEN pointImpulse(this, <<FDiv(width, 2 * Scale), FDiv(height, 2 * Scale)>>)
    ELSE False

wallCollision(this, width, height) ==
    LET x == getX(this.position)
        y == getY(this.position)
    IN  FGt(0, x) \/ FGt(0, y) \/ FGt(x, width) \/ FGt(y, height)

applyImpulse(this, impulse, weight) ==
    [this EXCEPT !.velocity =
        limit(add(this.velocity, scale(impulse, weight)), this.maxImpulse)]

\* applyRules with each rule computed after the impulse before it was applied
applyRules_Interleaved(this, self, bs, width, height) ==
    LET b1 == applyImpulse(this, separation(this, self, bs), WeightSeparation)
        b2 == applyImpulse(b1, alignment(b1, self, bs), WeightAlignment)
        b3 == applyImpulse(b2, cohesion(b2, self, bs), WeightCohesion)
        avoidWalls == wallAvoidance(b3, width, height)
    IN  IF avoidWalls # False THEN applyImpulse(b3, avoidWalls, WeightAvoidance) ELSE b3

applyRules(this, self, bs, width, height) ==
    LET sep == separation(this, self, bs)
        align == alignment(this, self, bs)
        coh == cohesion(this, self, bs)
        avoidWalls == wallAvoidance(this, width, height)
        b1 == applyImpulse(this, sep, WeightSeparation)
        b2 == applyImpulse(b1, align, WeightAlignment)
        b3 == applyImpulse(b2, coh, WeightCohesion)
    IN  IF avoidWalls # False THEN applyImpulse(b3, avoidWalls, WeightAvoidance) ELSE b3

\* move that integrates two timesteps at once
move_Twice(this) ==
    [this EXCEPT !.position = add(add(this.position, this.velocity), this.velocity)]

move(this) == [this EXCEPT !.position = add(this.position, this.velocity)]

----------------------------------------------------------------------------
(* Bounds and inputs *)

\* moveFlock is called at most MaxTicks times
MaxTicks == 4

\* the initialSize argument ranges over 0..MaxInitialSize
MaxInitialSize == 2

\* the canvas of CSS size w x h after the constructor has scaled its width and
\* height attributes by window.devicePixelRatio
Canvas(w, h, dpi) ==
    [ width |-> FMul(w, dpi), height |-> FMul(h, dpi), clientWidth |-> w, clientHeight |-> h ]

\* canvases the vector-based flock is constructed on
Canvases == { Canvas(50 * Scale, 200 * Scale, Scale), Canvas(20 * Scale, 200 * Scale, Scale) }

\* results of Math.random(), a value in [0, 1), by the call that draws them:
\* the x, the y and the two velocity draws of the k-th boid (k counts from 0)
Quarter == Scale \div 4
Half == Scale \div 2
RandomX(k) == IF k = 0 THEN {Quarter, Half, 3 * Quarter}
              ELSE IF k = 1 THEN {Half, 3 * Quarter} ELSE {Quarter}
RandomY(k) == IF k = 0 THEN {Half} ELSE IF k = 1 THEN {Quarter, Half} ELSE {3 * Quarter}
RandomVx(k) == IF k = 0 THEN {0, Half, 3 * Quarter}
               ELSE IF k = 1 THEN {0, Half} ELSE {3 * Quarter}
RandomVy(k) == IF k = 0 THEN {0, Half, 3 * Quarter} ELSE {Half}

\* the Flock classes of the repository
Iterations == {"Flock.js", "part_005", "part_004"}

\* canvases the direction-based flocks are constructed on
SmallCanvases == { Canvas(8 * Scale, 8 * Scale, Scale), Canvas(8 * Scale, 8 * Scale, 2 * Scale) }

\* Math.random() results for the x, the y and the direction of the k-th boid of
\* a direction-based flock, and for a replacement boid
RandomDX(k) == IF k = 0 THEN {Quarter, 3 * Quarter} ELSE {Half}
RandomDY(k) == IF k = 0 THEN {Half} ELSE {Quarter}
RandomDir(k) == IF k = 0 THEN {0, Quarter} ELSE {Half}
ReplacementDraws == { <<Quarter, Half, 0>>, <<3 * Quarter, Half, Half>> }

\* the values decideDirection may return: an angle or NaN
DesiredDirections == {0, HalfTurn, NaN}

----------------------------------------------------------------------------
(* class Flock (Flock.js) *)

\* let size = initialSize || 5
FlockSize(n) == OrDefault(n * Scale, 5 * Scale) \div Scale

\* the boid pushed by addRandomBoid for the Math.random() results r1..r4
RandomBoid(cv, r1, r2, r3, r4) ==
    Boid(FMul(r1, cv.width), FMul(r2, cv.height), FMul(cv.height, (3 * Scale) \div 100),
         Undefined, r3, r4)

size(bs) == Len(bs)

\* no array has been allocated
HeapIdle == heap = << >> /\ raws = << >> /\ vectors = << >>

\* no method call is under study
CallIdle == call = << >> /\ returned = << >>

Init ==
    /\ iteration \in Iterations
    /\ canvas \in IF iteration = "Flock.js" THEN Canvases ELSE SmallCanvases
    /\ initialSize \in IF iteration = "Flock.js" THEN 0..MaxInitialSize ELSE 1..MaxInitialSize
    /\ boids = << >>
    /\ dboids = << >>
    /\ sizeBefore = 0
    /\ left = 0
    /\ pc = "constructor"
    /\ idx = 0
    /\ start = << >>
    /\ ticks = 0
    /\ built = << >>
    /\ applied = {}
    /\ moved = {}
    /\ HeapIdle
    /\ CallIdle

\* one pass of the constructor's loop: this.addRandomBoid()
addRandomBoid ==
    /\ iteration = "Flock.js"
    /\ pc = "constructor"
    /\ idx < FlockSize(initialSize)
    /\ \E r1 \in RandomX(idx), r2 \in RandomY(idx),
          r3 \in RandomVx(idx), r4 \in RandomVy(idx) :
            boids' = Append(boids, RandomBoid(canvas, r1, r2, r3, r4))
    /\ idx' = IF idx + 1 < FlockSize(initialSize) THEN idx + 1 ELSE 0
    /\ pc' = IF idx + 1 < FlockSize(initialSize) THEN "constructor" ELSE "idle"
    /\ built' = IF idx + 1 < FlockSize(initialSize) THEN built ELSE boids'
    /\ UNCHANGED <<iteration, canvas, initialSize, dboids, start, ticks, applied, moved,
                   sizeBefore, left>>
    /\ UNCHANGED <<heapVars, callVars>>

\* moveFlock() is entered
moveFlockBegin ==
    /\ iteration = "Flock.js"
    /\ pc = "idle"
    /\ ticks < MaxTicks
    /\ pc' = "rules"
    /\ idx' = 0
    /\ start' = boids
    /\ ticks' = ticks + 1
    /\ applied' = {}
    /\ moved' = {}
    /\ sizeBefore' = size(boids)
    /\ UNCHANGED <<iteration, canvas, initialSize, boids, dboids, built, left>>
    /\ UNCHANGED <<heapVars, callVars>>

\* the two loops of moveFlock merged into one: each boid moves right after
\* its applyRules
moveFlockRules_ThenMove ==
    /\ pc = "rules"
    /\ idx < Len(boids)
    /\ boids' = [boids EXCEPT ![idx + 1] =
                    move(applyRules(boids[idx + 1], idx + 1, boids, canvas.width, canvas.height))]
    /\ idx' = IF idx + 1 < Len(boids) THEN idx + 1 ELSE 0
    /\ pc' = IF idx + 1 < Len(boids) THEN "rules" ELSE "idle"
    /\ applied' = applied \cup {idx + 1}
    /\ moved' = moved \cup {idx + 1}
    /\ UNCHANGED <<iteration, canvas, initialSize, dboids, start, ticks, built,
                   sizeBefore, left>>
    /\ UNCHANGED <<heapVars, callVars>>

\* one pass of the first loop: this.boids[i].applyRules(this.boids, width, height)
moveFlockRules ==
    /\ pc = "rules"
    /\ idx < Len(boids)
    /\ boids' = [boids EXCEPT ![idx + 1] =
                    applyRules(boids[idx + 1], idx + 1, boids, canvas.width, canvas.height)]
    /\ idx' = IF idx + 1 < Len(boids) THEN idx + 1 ELSE 0
    /\ pc' = IF idx + 1 < Len(boids) THEN "rules" ELSE "move"
    /\ applied' = applied \cup {idx + 1}
    /\ UNCHANGED <<iteration, canvas, initialSize, dboids, start, ticks, built, moved,
                   sizeBefore, left>>
    /\ UNCHANGED <<heapVars, callVars>>

\* one pass of the second loop: this.boids[i].move()
moveFlockMove ==
    /\ pc = "move"
    /\ idx < Len(boids)
    /\ boids' = [boids EXCEPT ![idx + 1] = move(boids[idx + 1])]
    /\ idx' = IF idx + 1 < Len(boids) THEN idx + 1 ELSE 0
    /\ pc' = IF idx + 1 < Len(boids) THEN "move" ELSE "idle"
    /\ moved' = moved \cup {idx + 1}
    /\ UNCHANGED <<iteration, canvas, initialSize, dboids, start, ticks, built, applied,
                   sizeBefore, left>>
    /\ UNCHANGED <<heapVars, callVars>>

----------------------------------------------------------------------------
(* The direction-based Boid and the two Flock iterations that cull *)

\* new Boid(startX, startY, startDirection, size) of the direction-based boid
DirBoid(startX, startY, startDirection, sz) ==
    [ boidSize  |-> OrDefault(sz, 15 * Scale),
      radius    |-> FMul(OrDefault(sz, 15 * Scale), 4 * Scale),
      direction |-> OrDefault(startDirection, 0),
      position  |-> <<OrDefault(startX, 0), OrDefault(startY, 0)>> ]

\* canSee(x, y) of the direction-based boid: this.direction is the heading
canSeeByDirection(this, x, y) ==
    LET relDirection == IF FGt(this.direction, HalfTurn)
                        THEN FSub(this.direction, 2 * HalfTurn) ELSE this.direction
        distance == distanceTo(this, x, y)
    IN  /\ FLe(distance, this.radius)
        /\ LET targetAngle == angleTo(this, x, y)
           IN  AbsAngleWithin(
                   distanceBetweenAngles(targetAngle, <<Cos(relDirection), Sin(relDirection)>>),
                   CosFov)

\* detectBoids(boids) of the direction-based boid: vision.neighboringBoids
detectBoids(this, self, bs) ==
    LET seen == SelectIdx([i \in 1..Len(bs) |->
                              /\ i # self
                              /\ canSeeByDirection(this, bs[i].position[1], bs[i].position[2])],
                          1, Len(bs))
    IN  [k \in 1..Len(seen) |-> bs[seen[k]]]

\* const danger = 2 of detectObstacles
danger == 2 * Scale

\* the obstacles the boid sees, each with the safety point pushed for it, in
\* the order of the loop over obstacles
ObstacleEntries(this, obstacles) ==
    LET seen == SelectIdx([i \in 1..Len(obstacles) |->
                              canSeeByDirection(this, obstacles[i][1], obstacles[i][2])],
                          1, Len(obstacles))
    IN  [k \in 1..Len(seen) |->
            [ seen |-> obstacles[seen[k]],
              safe |-> <<FAdd(this.position[1],
                              FMul(FSub(this.position[1], obstacles[seen[k]][1]), danger)),
                         FAdd(this.position[2],
                              FMul(FSub(this.position[2], obstacles[seen[k]][2]), danger))>> ]]

\* the edges of the display the boid sees, each with the safety point pushed
\* for it: left, right, top, bottom
EdgeEntries(this, width, height) ==
    LET x == this.position[1]
        y == this.position[2]
    IN  (IF canSeeByDirection(this, 0, y)
         THEN << [ seen |-> <<0, y>>, safe |-> <<FMul(x, danger), y>> ] >>
         ELSE << >>)
        \o (IF canSeeByDirection(this, width, y)
            THEN << [ seen |-> <<width, y>>,
                      safe |-> <<FSub(x, FMul(FSub(width, x), danger)), y>> ] >>
            ELSE << >>)
        \o (IF canSeeByDirection(this, x, 0)
            THEN << [ seen |-> <<x, 0>>, safe |-> <<x, FMul(y, danger)>> ] >>
            ELSE << >>)
        \o (IF canSeeByDirection(this, x, height)
            THEN << [ seen |-> <<x, height>>,
                      safe |-> <<x, FSub(y, FMul(FSub(height, y), danger))>> ] >>
            ELSE << >>)

\* detectObstacles(obstacles, width, height) of part_002: vision.obstacles, the
\* safety points and decision.avoidance after the call
detectObstacles(this, obstacles, width, height) ==
    LET entries == ObstacleEntries(this, obstacles) \o EdgeEntries(this, width, height)
        safety == [k \in 1..Len(entries) |-> entries[k].safe]
        sum == SumOver(safety, [k \in 1..Len(safety) |-> k], Zero)
    IN  [ obstacles |-> [k \in 1..Len(entries) |-> entries[k].seen],
          safety    |-> safety,
          avoidance |-> IF Len(safety) > 0
                        THEN <<FDiv(sum[1], Len(safety) * Scale),
                               FDiv(sum[2], Len(safety) * Scale)>>
                        ELSE <<Undefined, Undefined>> ]

\* the boid pushed by addRandomBoid of part_005 for the Math.random() results
RandomDirBoid(cv, r1, r2, r3) ==
    DirBoid(FMul(r1, cv.width), FMul(r2, cv.height),
            -(TruncDiv(r3 * 2 * HalfTurn, Scale) - HalfTurn),
            FMul(cv.height, (3 * Scale) \div 100))

\* the boids array after addBoid(x, y) of part_005, for the Math.random()
\* result r
addBoid(bs, cv, x, y, r) ==
    LET x1 == IF FLt(x, 0) THEN 0 ELSE x
        x2 == IF FGt(x1, cv.width) THEN cv.width ELSE x1
        y1 == IF FLt(y, 0) THEN 0 ELSE y
        y2 == IF FGt(y1, cv.width) THEN cv.height ELSE y1
    IN  Append(bs, DirBoid(x2, y2, -(TruncDiv(r * 2 * HalfTurn, Scale) - HalfTurn),
                           FMul(cv.height, (3 * Scale) \div 100)))

\* the boid pushed by the constructor of part_004
ConstructedDirBoid(cv, r1, r2, r3) ==
    DirBoid(FMul(r1, cv.clientWidth), FMul(r2, cv.clientHeight),
            TruncDiv(r3 * 2 * HalfTurn, Scale),
            FMul(cv.height, (5 * Scale) \div 100))

\* boidSpeed and maxTurn of the two moveFlock iterations
BoidSpeed(it) == IF it = "part_005" THEN (15 * Scale) \div 10 ELSE 3 * Scale
MaxTurn(it) == IF it = "part_005" THEN HalfTurn \div 30 ELSE HalfTurn \div 10

\* the turn moveFlock applies for the direction decideDirection returned
TurnAngle(b, desiredDirection, maxTurn) ==
    LET turnAngle == NormAngle(FSub(desiredDirection, b.direction))
    IN  IF FGt(FAbs(turnAngle), maxTurn)
        THEN (IF FGt(turnAngle, 0) THEN maxTurn ELSE -maxTurn)
        ELSE turnAngle

\* one pass of the loop of moveFlock up to the bounds test: turn, then advance
TurnAndAdvance(b, desiredDirection, maxTurn, boidSpeed) ==
    LET direction == FAdd(b.direction, TurnAngle(b, desiredDirection, maxTurn))
    IN  [b EXCEPT !.direction = direction,
                  !.position = <<FAdd(b.position[1], FMul(boidSpeed, Cos(direction))),
                                 FAdd(b.position[2], FMul(boidSpeed, Sin(direction)))>>]

\* the boid has moved out of the screen
OutOfScreen(b, cv) ==
    \/ FLt(b.position[1], 0)
    \/ FLt(b.position[2], 0)
    \/ FGt(b.position[1], cv.clientWidth)
    \/ FGt(b.position[2], cv.clientHeight)

\* the boids after the first loop, and the indices pushed on terminate
AfterFirstLoop(bs, desired, it) ==
    [i \in 1..Len(bs) |-> TurnAndAdvance(bs[i], desired[i], MaxTurn(it), BoidSpeed(it))]

Terminate(bs, cv) ==
    SelectIdx([i \in 1..Len(bs) |-> OutOfScreen(bs[i], cv)], 1, Len(bs))

\* terminate left in ascending order
Reverse_Not(s) == s

\* terminate.reverse()
RECURSIVE Reverse(_)
Reverse(s) == IF s = << >> THEN << >> ELSE Append(Reverse(Tail(s)), Head(s))

\* this.boids.splice(i, 1), for the 1-based index i
Splice(bs, i) == SubSeq(bs, 1, i - 1) \o SubSeq(bs, i + 1, Len(bs))

RECURSIVE SpliceAndReplace(_, _, _)
\* the second loop of part_005: splice(terminate[i], 1), then addRandomBoid()
SpliceAndReplace(bs, terminate, fresh) ==
    IF terminate = << >> THEN bs
    ELSE SpliceAndReplace(Append(Splice(bs, Head(terminate)), Head(fresh)),
                          Tail(terminate), Tail(fresh))

RECURSIVE SpliceAll(_, _)
\* the second loop of part_004: splice(terminate[i], 1)
SpliceAll(bs, terminate) ==
    IF terminate = << >> THEN bs
    ELSE SpliceAll(Splice(bs, Head(terminate)), Tail(terminate))

\* one pass of the constructor's loop of part_005: this.addRandomBoid()
addRandomBoid_005 ==
    /\ iteration = "part_005"
    /\ pc = "constructor"
    /\ idx < FlockSize(initialSize)
    /\ \E r1 \in RandomDX(idx), r2 \in RandomDY(idx), r3 \in RandomDir(idx) :
            dboids' = Append(dboids, RandomDirBoid(canvas, r1, r2, r3))
    /\ idx' = IF idx + 1 < FlockSize(initialSize) THEN idx + 1 ELSE 0
    /\ pc' = IF idx + 1 < FlockSize(initialSize) THEN "constructor" ELSE "idle"
    /\ UNCHANGED <<iteration, canvas, initialSize, boids, start, ticks, built, applied,
                   moved, sizeBefore, left>>
    /\ UNCHANGED <<heapVars, callVars>>

\* one pass of the constructor's loop of part_004: this.boids.push(new Boid(...))
construct_004 ==
    /\ iteration = "part_004"
    /\ pc = "constructor"
    /\ idx < FlockSize(initialSize)
    /\ \E r1 \in RandomDX(idx), r2 \in RandomDY(idx), r3 \in RandomDir(idx) :
            dboids' = Append(dboids, ConstructedDirBoid(canvas, r1, r2, r3))
    /\ idx' = IF idx + 1 < FlockSize(initialSize) THEN idx + 1 ELSE 0
    /\ pc' = IF idx + 1 < FlockSize(initialSize) THEN "constructor" ELSE "idle"
    /\ UNCHANGED <<iteration, canvas, initialSize, boids, start, ticks, built, applied,
                   moved, sizeBefore, left>>
    /\ UNCHANGED <<heapVars, callVars>>

\* moveFlock() of part_005; decideDirection's results are the inputs `desired`,
\* the Math.random() results of the replacement boids are the inputs `draws`
moveFlock_005 ==
    /\ iteration = "part_005"
    /\ pc = "idle"
    /\ ticks < MaxTicks
    /\ \E desired \in [1..Len(dboids) -> DesiredDirections] :
         LET after == AfterFirstLoop(dboids, desired, iteration)
             terminate == Terminate(after, canvas)
         IN  /\ left' = Len(terminate)
             /\ \E draws \in [1..Len(terminate) -> ReplacementDraws] :
                  dboids' = SpliceAndReplace(after, Reverse(terminate),
                               [j \in 1..Len(terminate) |->
                                   RandomDirBoid(canvas, draws[j][1], draws[j][2],
                                                 draws[j][3])])
    /\ sizeBefore' = size(dboids)
    /\ ticks' = ticks + 1
    /\ UNCHANGED <<iteration, canvas, initialSize, boids, pc, idx, start, built,
                   applied, moved>>
    /\ UNCHANGED <<heapVars, callVars>>

\* moveFlock() of part_004; decideDirection's results are the inputs `desired`
moveFlock_004 ==
    /\ iteration = "part_004"
    /\ pc = "idle"
    /\ ticks < MaxTicks
    /\ \E desired \in [1..Len(dboids) -> DesiredDirections] :
         LET after == AfterFirstLoop(dboids, desired, iteration)
             terminate == Terminate(after, canvas)
         IN  /\ left' = Len(terminate)
             /\ dboids' = SpliceAll(after, Reverse(terminate))
    /\ sizeBefore' = size(dboids)
    /\ ticks' = ticks + 1
    /\ UNCHANGED <<iteration, canvas, initialSize, boids, pc, idx, start, built,
                   applied, moved>>
    /\ UNCHANGED <<heapVars, callVars>>

Next ==
    \/ addRandomBoid
    \/ moveFlockBegin
    \/ moveFlockRules
    \/ moveFlockMove
    \/ addRandomBoid_005
    \/ construct_004
    \/ moveFlock_005
    \/ moveFlock_004

Spec == Init /\ [][Next]_vars

----------------------------------------------------------------------------
(* Properties *)

\* a moveFlock call has completed
AfterTick == pc = "idle" /\ ticks > 0

\* C1: after each moveFlock tick, every boid's velocity magnitude is at most
\* that boid's maxImpulse
C1_SpeedBound ==
    AfterTick =>
        \A i \in 1..Len(boids) : FLe(length(boids[i].velocity), boids[i].maxImpulse)

\* the boids of the flock that runs
FlockBoids == IF iteration = "Flock.js" THEN boids ELSE dboids

\* C2: after every moveFlock the flock has as many boids as before the call,
\* whatever number of boids left the bounds during it
C2_PopulationConserved ==
    AfterTick => size(FlockBoids) = sizeBefore

\* C3: after a tick no boid remains in the flock with a position outside
\* [0, width] x [0, height]
C3_NoBoidOutsideAfterTick ==
    AfterTick =>
        \A i \in 1..Len(boids) : ~wallCollision(boids[i], canvas.width, canvas.height)

\* C4: within one moveFlock call the applyRules call of every boid has returned
\* before the move call of any boid starts; no position changes before that
C4_DecideBeforeAct ==
    /\ moved # {} => applied = 1..Len(boids)
    /\ (pc \in {"rules", "move"} /\ applied # 1..Len(boids)) =>
          \A i \in 1..Len(boids) : boids[i].position = start[i].position

C4_Witness ==
    /\ Len(boids) >= 2
    /\ moved # {}
    /\ \E i \in moved : boids[i].position # start[i].position
    /\ \E i \in applied : boids[i].velocity # start[i].velocity

\* C5: during the decide phase of a tick no boid's position or velocity is mutated
C5_NoMutationWhileDeciding ==
    pc = "rules" =>
        \A i \in 1..Len(boids) :
            /\ boids[i].position = start[i].position
            /\ boids[i].velocity = start[i].velocity

\* the boid sees no other element of bs and none of the four wall points
SeesNothing(this, self, bs, width, height) ==
    /\ VisibleNeighbours(this, self, bs) = << >>
    /\ ~SeesWall(this, width, height)

\* C6: applyRules leaves the velocity of a boid unchanged when its speed is at
\* most maxImpulse and it sees no other boid and no wall point
C6_NoNeighbourIdempotence ==
    [][ ( /\ pc = "rules"
          /\ FLe(length(boids[idx + 1].velocity), boids[idx + 1].maxImpulse)
          /\ SeesNothing(boids[idx + 1], idx + 1, boids, canvas.width, canvas.height) )
        => boids'[idx + 1].velocity = boids[idx + 1].velocity ]_vars

C6_Witness ==
    /\ Len(boids) >= 2
    /\ 1 \in applied
    /\ start[1].velocity # Zero
    /\ FLe(length(start[1].velocity), start[1].maxImpulse)
    /\ SeesNothing(start[1], 1, start, canvas.width, canvas.height)
    /\ boids[1].velocity = start[1].velocity

\* the two vectors point in opposite directions
Opposite(u, v) ==
    /\ IsFiniteVec(u) /\ IsFiniteVec(v)
    /\ u[1] * v[2] - u[2] * v[1] = 0
    /\ u[1] * v[1] + u[2] * v[2] < 0

\* the distance between the two boids of a flock of two
Distance(bs) == length(subtract(bs[1].position, bs[2].position))

\* two boids closer than the desired separation, with opposite headings, each
\* seeing the other
SeparationScenario(bs) ==
    /\ Len(bs) = 2
    /\ FLt(Distance(bs),
           FAdd(FAdd(bs[1].size, bs[2].size), FMul(25 * Scale, separationCoeff)))
    /\ Opposite(bs[1].velocity, bs[2].velocity)
    /\ Visible(bs[1], 1, bs, 2)
    /\ Visible(bs[2], 2, bs, 1)

\* C7: in the separation scenario the distance between the two boids is strictly
\* greater after one tick
C7_SeparationEffective ==
    (AfterTick /\ SeparationScenario(start)) => FGt(Distance(boids), Distance(start))

\* the boid is inside the bounds, within its vision radius of an edge and
\* moving straight toward that edge
HeadsIntoEdge(b, width, height) ==
    LET x == getX(b.position)
        y == getY(b.position)
        vx == getX(b.velocity)
        vy == getY(b.velocity)
    IN  /\ ~wallCollision(b, width, height)
        /\ \/ vy = 0 /\ vx < 0 /\ FLe(x, b.radius)
           \/ vy = 0 /\ vx > 0 /\ FLe(FSub(width, x), b.radius)
           \/ vx = 0 /\ vy < 0 /\ FLe(y, b.radius)
           \/ vx = 0 /\ vy > 0 /\ FLe(FSub(height, y), b.radius)

\* C8: a single boid placed near an edge and heading directly into it never has
\* a position outside the bounds
C8_BoundaryContainment ==
    (Len(built) = 1 /\ HeadsIntoEdge(built[1], canvas.width, canvas.height)) =>
        ~wallCollision(boids[1], canvas.width, canvas.height)

\* C9: construction with population size 0 creates no boids
C9_InvalidParametersCreateNothing ==
    initialSize = 0 => boids = << >>

\* C10: every boid the flock creates starts with a velocity that is not the
\* zero vector
C10_InitialVelocityNonZero ==
    ticks = 0 => \A i \in 1..Len(boids) : boids[i].velocity # Zero

----------------------------------------------------------------------------
(* class Vector on a heap.  Arrays are objects: heap[a] is the contents of  *)
(* the array with reference a.  A Vector object holds the reference of its  *)
(* this.values array; a caller holds the references of the arrays it made.  *)
(* Each holder also records the contents it must observe: what it was       *)
(* built with, changed only by writes made through that holder.             *)

\* at most MaxObjects Vector objects and caller arrays are created
MaxObjects == 4

\* one more object may be created
MayCreate == Len(vectors) + Len(raws) < MaxObjects

\* the array literals a caller passes to new Vector(values): shorter than,
\* as long as and longer than this.values
RawArrays == { << >>, <<Scale>>, <<3 * Scale, 4 * Scale>>, <<Scale, 0, 2 * Scale>> }

\* the arguments of scale(s) and limit(m), and the values a caller writes
Scalars == {2 * Scale}
Written == {7 * Scale}

\* an array literal [...] is evaluated: a new array on the heap
AllocArray(h, contents) == Append(h, contents)

\* this.values = values, the constructor without its copy loop
VectorCtor_Alias(h, values) ==
    IF values # 0
    THEN [ heap |-> h, ref |-> values ]
    ELSE [ heap |-> AllocArray(h, <<0, 0>>), ref |-> Len(h) + 1 ]

\* new Vector(values): values is the reference of the array passed, 0 when
\* the argument is missing; the result is the heap after the call and the
\* reference of this.values
VectorCtor(h, values) ==
    LET fresh == <<0, 0>>
        copied == IF values # 0
                  THEN [i \in 1..2 |-> IF i <= Len(h[values]) THEN h[values][i] ELSE fresh[i]]
                  ELSE fresh
    IN  [ heap |-> AllocArray(h, copied), ref |-> Len(h) + 1 ]

\* new Vector([x, y]): the literal is allocated, then passed to the constructor
NewFromLiteral(h, contents) ==
    VectorCtor(AllocArray(h, contents), Len(h) + 1)

\* the Vector whose values array is h[ref], as a value
ValuesOf(h, ref) == <<h[ref][1], h[ref][2]>>

\* v.limit(m) on the heap: normalize().scale(m) allocates twice, the other
\* branch passes this.values itself to the constructor
LimitOnHeap(h, ref, m) ==
    IF FGt(length(ValuesOf(h, ref)), m)
    THEN LET n == NewFromLiteral(h, normalize(ValuesOf(h, ref)))
         IN  NewFromLiteral(n.heap, scale(ValuesOf(n.heap, n.ref), m))
    ELSE VectorCtor(h, ref)

\* the Vector object made by a constructor call that returned r
Holder(r) == [ ref |-> r.ref, contents |-> r.heap[r.ref] ]

VectorInit ==
    /\ heap = << >>
    /\ raws = << >>
    /\ vectors = << >>
    /\ CallIdle
    /\ iteration = "Flock.js"
    /\ canvas = Canvas(50 * Scale, 200 * Scale, Scale)
    /\ initialSize = 1
    /\ boids = << >> /\ dboids = << >> /\ start = << >> /\ built = << >>
    /\ pc = "constructor" /\ idx = 0 /\ ticks = 0
    /\ applied = {} /\ moved = {} /\ sizeBefore = 0 /\ left = 0

\* the caller evaluates an array literal and keeps it
NewArray ==
    /\ MayCreate
    /\ \E a \in RawArrays :
         /\ heap' = AllocArray(heap, a)
         /\ raws' = Append(raws, [ ref |-> Len(heap) + 1, contents |-> a ])
    /\ UNCHANGED <<vectors, flockVars, callVars>>

\* new Vector(values) on an array of the caller, or new Vector()
NewVector ==
    /\ MayCreate
    /\ \E values \in {0} \cup { raws[k].ref : k \in 1..Len(raws) } :
         LET r == VectorCtor(heap, values)
         IN  /\ heap' = r.heap
             /\ vectors' = Append(vectors, Holder(r))
    /\ UNCHANGED <<raws, flockVars, callVars>>

\* u.add(v) and u.subtract(v)
VectorAddSubtract ==
    /\ MayCreate
    /\ \E i \in 1..Len(vectors), j \in 1..Len(vectors), minus \in BOOLEAN :
         LET u == ValuesOf(heap, vectors[i].ref)
             v == ValuesOf(heap, vectors[j].ref)
             r == NewFromLiteral(heap, IF minus THEN subtract(u, v) ELSE add(u, v))
         IN  /\ heap' = r.heap
             /\ vectors' = Append(vectors, Holder(r))
    /\ UNCHANGED <<raws, flockVars, callVars>>

\* u.scale(s) and u.normalize()
VectorScaleNormalize ==
    /\ MayCreate
    /\ \E i \in 1..Len(vectors), s \in Scalars \cup {NaN} :
         LET u == ValuesOf(heap, vectors[i].ref)
             r == NewFromLiteral(heap, IF s = NaN THEN normalize(u) ELSE scale(u, s))
         IN  /\ heap' = r.heap
             /\ vectors' = Append(vectors, Holder(r))
    /\ UNCHANGED <<raws, flockVars, callVars>>

\* u.limit(m)
VectorLimit ==
    /\ MayCreate
    /\ \E i \in 1..Len(vectors), m \in Scalars :
         LET r == LimitOnHeap(heap, vectors[i].ref, m)
         IN  /\ heap' = r.heap
             /\ vectors' = Append(vectors, Holder(r))
    /\ UNCHANGED <<raws, flockVars, callVars>>

\* the caller writes the first element of an array it made: a[0] = x
WriteRaw ==
    /\ \E n \in 1..Len(raws), x \in Written :
         \E k \in 1..(IF raws[n].contents = << >> THEN 0 ELSE 1) :
            /\ heap[raws[n].ref][k] # x
            /\ heap' = [heap EXCEPT ![raws[n].ref][k] = x]
            /\ raws' = [raws EXCEPT ![n].contents[k] = x]
    /\ UNCHANGED <<vectors, flockVars, callVars>>

\* a holder of a Vector writes the first of its values: v.values[0] = x
WriteVector ==
    /\ \E n \in 1..Len(vectors), x \in Written, k \in {1} :
            /\ heap[vectors[n].ref][k] # x
            /\ heap' = [heap EXCEPT ![vectors[n].ref][k] = x]
            /\ vectors' = [vectors EXCEPT ![n].contents[k] = x]
    /\ UNCHANGED <<raws, flockVars, callVars>>

VectorNext ==
    \/ NewArray
    \/ NewVector
    \/ VectorAddSubtract
    \/ VectorScaleNormalize
    \/ VectorLimit
    \/ WriteRaw
    \/ WriteVector

VectorSpec == VectorInit /\ [][VectorNext]_vars

\* C11: add, subtract, scale, normalize and limit return a new Vector and leave
\* the receiver and the argument unchanged; no Vector shares its values array
\* with another Vector or with an array passed to a constructor, so that every
\* holder observes the contents it was built with and its own writes only
C11_ValueSemantics ==
    /\ \A n \in 1..Len(vectors) :
         /\ heap[vectors[n].ref] = vectors[n].contents
         /\ \A k \in 1..Len(vectors) : k # n => vectors[k].ref # vectors[n].ref
         /\ \A k \in 1..Len(raws) : raws[k].ref # vectors[n].ref
    /\ \A n \in 1..Len(raws) : heap[raws[n].ref] = raws[n].contents

\* an array was passed to a constructor and written afterwards, the Vector
\* constructed from it was copied by limit or by a constructor, and the copy
\* was written too: the three hold different contents
C11_Witness ==
    /\ \E n \in 1..Len(raws) : raws[n].contents = <<7 * Scale, 4 * Scale>>
    /\ \E n \in 1..Len(vectors), k \in 1..Len(vectors) :
         /\ n # k
         /\ vectors[n].contents = <<3 * Scale, 4 * Scale>>
         /\ vectors[k].contents = <<7 * Scale, 4 * Scale>>
         /\ heap[vectors[n].ref] # heap[vectors[k].ref]

----------------------------------------------------------------------------
(* Single method calls.  One call of a method of Vector or Boid is made on   *)
(* a receiver and arguments drawn from the sets below; `call` records the    *)
(* call and `returned` what it returned.                                     *)

\* components of the vectors the methods of Vector are called on: whole and
\* signed values, and the non-finite values a velocity holds after the
\* division by zero of pointImpulse
Components == {NInf, -4 * Scale, -Scale, 0, Scale, 3 * Scale, 4 * Scale, PInf, NaN}
VectorInputs == Components \X Components

\* the arguments m of limit(m): 0, below and above the lengths of the inputs
Limits == {0, Scale, 5 * Scale}

CallInit ==
    /\ CallIdle
    /\ HeapIdle
    /\ iteration = "Flock.js"
    /\ canvas = Canvas(50 * Scale, 200 * Scale, Scale)
    /\ initialSize = 1
    /\ boids = << >> /\ dboids = << >> /\ start = << >> /\ built = << >>
    /\ pc = "constructor" /\ idx = 0 /\ ticks = 0
    /\ applied = {} /\ moved = {} /\ sizeBefore = 0 /\ left = 0

\* v.normalize()
CallNormalize ==
    /\ CallIdle
    /\ \E v \in VectorInputs :
         /\ call' = [ method |-> "normalize", this |-> v ]
         /\ returned' = normalize(v)
    /\ UNCHANGED <<flockVars, heapVars>>

\* v.limit(m)
CallLimit ==
    /\ CallIdle
    /\ \E v \in VectorInputs, m \in Limits :
         /\ call' = [ method |-> "limit", this |-> v, m |-> m ]
         /\ returned' = limit(v, m)
    /\ UNCHANGED <<flockVars, heapVars>>

\* the method under study is the named one
Called(name) == call # << >> /\ call.method = name

\* a and b are finite and differ by at most tol grid units
Near(a, b, tol) == IsFinite(a) /\ IsFinite(b) /\ Abs(a - b) <= tol

\* n points where u points: the components have the signs of those of u and
\* n is parallel to u up to the rounding of its components
SameDirection(u, n) ==
    /\ IsFiniteVec(u) /\ IsFiniteVec(n)
    /\ Sign(n[1]) = Sign(u[1]) /\ Sign(n[2]) = Sign(u[2])
    /\ Abs((u[1] \div Scale) * n[2] - (u[2] \div Scale) * n[1])
          <= (Abs(u[1] \div Scale) + Abs(u[2] \div Scale)) * (1 + length(n) \div Scale)

\* C12: normalize of the zero vector returns the zero vector; for every
\* non-zero vector it returns a vector of length 1 with the same direction
C12_NormalizeUnitOrZero ==
    Called("normalize") =>
        IF call.this = Zero
        THEN returned = Zero
        ELSE Near(length(returned), Scale, 2) /\ SameDirection(call.this, returned)

\* C13: v.limit(m) has length at most m; it equals v when v.length() <= m and
\* otherwise has the direction of v and length m
C13_LimitBoundsLength ==
    Called("limit") =>
        /\ FLe(length(returned), call.m)
        /\ IF FLe(length(call.this), call.m)
           THEN returned = call.this
           ELSE /\ call.m > 0 => SameDirection(call.this, returned)
                /\ Near(length(returned), call.m, 2 * (call.m \div Scale) + 2)

\* The boid the calls are made on stands at (30, 30) and has size 6, as the
\* boids of a canvas of height 200, size 8, or the default size 15
SeerPosition == <<30 * Scale, 30 * Scale>>
SeerSizes == {6 * Scale, 8 * Scale, 15 * Scale}

\* the vector-based boid with the given position, velocity and size
BoidAt(position, velocity, sz) ==
    [Boid(position[1], position[2], sz, Undefined, Half, Half) EXCEPT !.velocity = velocity]

\* velocities of the boid: none, along the axes, diagonal, and the velocity
\* left by the division by zero of pointImpulse
SeerVelocities == { <<0, 0>>, <<Scale, 0>>, <<-2 * Scale, 0>>, <<Scale, Scale>>,
                    <<0, -2 * Scale>>, <<-Scale, -Scale>>, <<NInf, NaN>> }

\* directions of the direction-based boid, in steps of Math.PI / 30: right,
\* 30 degrees, down, left, 270 degrees (above Math.PI), and NaN
SeerDirections == {0, 5, 15, 30, 45, NaN}

\* targets of canSee, as offsets in pixels from the boid: the boid's own
\* position, points inside, on and outside the vision radius of 24
Offsets == {-25, -24, -10, 0, 10, 24, 25}

\* this.canSee(x, y) of the vector-based boid
CallCanSee ==
    /\ CallIdle
    /\ \E v \in SeerVelocities, dx \in Offsets, dy \in Offsets :
         LET this == BoidAt(SeerPosition, v, 6 * Scale)
             x == SeerPosition[1] + dx * Scale
             y == SeerPosition[2] + dy * Scale
         IN  /\ call' = [ method |-> "canSee", this |-> this, x |-> x, y |-> y,
                          heading |-> IF v = Zero THEN <<Scale, 0>> ELSE v ]
             /\ returned' = canSee(this, x, y)
    /\ UNCHANGED <<flockVars, heapVars>>

\* this.canSee(x, y) of the direction-based boid
CallCanSeeByDirection ==
    /\ CallIdle
    /\ \E d \in SeerDirections, dx \in Offsets, dy \in Offsets :
         LET this == DirBoid(SeerPosition[1], SeerPosition[2], d, 6 * Scale)
             x == SeerPosition[1] + dx * Scale
             y == SeerPosition[2] + dy * Scale
         IN  /\ call' = [ method |-> "canSee", this |-> this, x |-> x, y |-> y,
                          heading |-> <<Cos(this.direction), Sin(this.direction)>> ]
             /\ returned' = canSeeByDirection(this, x, y)
    /\ UNCHANGED <<flockVars, heapVars>>

\* the vector from the boid to the target of the call, in pixels
ToTarget == << (call.x - call.this.position[1]) \div Scale,
               (call.y - call.this.position[2]) \div Scale >>

\* the distance from the boid to the target is at most vision.radius
WithinRadius ==
    (ToTarget[1] * ToTarget[1] + ToTarget[2] * ToTarget[2]) * Scale * Scale
        <= call.this.radius * call.this.radius

\* the angle between the bearing to the target and the heading h is at most
\* Math.PI - Math.PI / 4: its cosine is at least -1 / sqrt(2)
WithinFieldOfView(h) ==
    LET dot == ToTarget[1] * h[1] + ToTarget[2] * h[2]
    IN  \/ dot >= 0
        \/ 2 * dot * dot <= (ToTarget[1] * ToTarget[1] + ToTarget[2] * ToTarget[2])
                              * (h[1] * h[1] + h[2] * h[2])

\* C14: canSee returns true exactly when the target is within vision.radius and
\* the bearing to it differs from the heading by at most PI - vision.angle; in
\* particular a point farther than the radius is never visible, a point within
\* the radius straight ahead is visible and a point straight behind is not
C14_CanSeeRadiusAndAngle ==
    (Called("canSee") /\ ToTarget # Zero) =>
        IF IsFiniteVec(call.heading)
        THEN returned <=> (WithinRadius /\ WithinFieldOfView(call.heading))
        ELSE ~returned

\* a target within the radius and behind the boid's beam, yet inside its field
\* of view, has been seen
C14_Witness ==
    /\ Called("canSee")
    /\ IsFiniteVec(call.heading)
    /\ WithinRadius
    /\ ToTarget[1] * call.heading[1] + ToTarget[2] * call.heading[2] < 0
    /\ returned = TRUE

\* C15: a target at the boid's own position is visible for every heading
C15_OwnPositionVisible ==
    (Called("canSee") /\ ToTarget = Zero) => returned

\* velocities of the boid pointImpulse is called on: none, slow, and up to
\* maxImpulse
ImpulseVelocities == { <<0, 0>>, <<Scale \div 10, 0>>, <<Scale, 0>>, <<0, -2 * Scale>>,
                       <<3 * Scale, 4 * Scale>> }

\* targets of pointImpulse, as offsets in pixels from the boid: at distances
\* 0, 5, 12, 12.8, 13, 15, 16, 20, 30 and 40
PointOffsets == { <<0, 0>>, <<5, 0>>, <<12, 0>>, <<-10, -8>>, <<0, 13>>, <<-15, 0>>,
                  <<0, -16>>, <<20, 0>>, <<0, 30>>, <<-40, 0>> }

\* this.pointImpulse(new Vector([x, y]))
CallPointImpulse ==
    /\ CallIdle
    /\ \E v \in ImpulseVelocities, o \in PointOffsets, sz \in SeerSizes :
         LET this == BoidAt(SeerPosition, v, sz)
             x == SeerPosition[1] + o[1] * Scale
             y == SeerPosition[2] + o[2] * Scale
         IN  /\ call' = [ method |-> "pointImpulse", this |-> this, x |-> x, y |-> y ]
             /\ returned' = pointImpulse(this, <<x, y>>)
    /\ UNCHANGED <<flockVars, heapVars>>

\* C16: pointImpulse returns a vector with finite components and magnitude at
\* most maxImpulse, for every target and every velocity, the zero velocity
\* included
C16_PointImpulseFinite ==
    Called("pointImpulse") =>
        /\ IsFiniteVec(returned)
        /\ FLe(length(returned), call.this.maxImpulse)

Min(a, b) == IF a < b THEN a ELSE b

\* the squared distance in pixels from the boid to the target of the call
SquaredDistance == ToTarget[1] * ToTarget[1] + ToTarget[2] * ToTarget[2]

\* the magnitude pointImpulse is to return in its near-field case: inverse in
\* the distance (15 / (speed * d)), clamped to maxImpulse
NearFieldMagnitude ==
    LET speed == length(call.this.velocity)
        d == ISqrt(SquaredDistance * Scale * Scale)
    IN  IF speed = 0 THEN call.this.maxImpulse
        ELSE Min(call.this.maxImpulse, (15 * Scale * Scale * Scale) \div (speed * d))

\* C20: pointImpulse returns the zero vector for a target within
\* vision.radius / 2; else, for a target within the near-field distance, a
\* vector toward the target of magnitude inverse in the distance; else the
\* unit vector toward the target scaled to the current speed; clamped to
\* maxImpulse in every case
C20_PointImpulseBranches ==
    Called("pointImpulse") =>
        LET half == call.this.radius \div (2 * Scale)
            toward == <<ToTarget[1] * Scale, ToTarget[2] * Scale>>
            speed == length(call.this.velocity)
        IN  /\ FLe(length(returned), call.this.maxImpulse)
            /\ IF SquaredDistance < half * half
               THEN returned = Zero
               ELSE IF SquaredDistance * Scale * Scale <= pointImpulseCoeff * pointImpulseCoeff
               THEN /\ SameDirection(toward, returned)
                    /\ Near(length(returned), NearFieldMagnitude, 5)
               ELSE IF speed = 0
               THEN returned = Zero
               ELSE /\ SameDirection(toward, returned)
                    /\ Near(length(returned), Min(call.this.maxImpulse, speed), 5)

\* The flocks the rules are called on: the boid itself and one or two
\* neighbours, in front of it, beside it, behind it and out of sight; the boid
\* is the first or the last element of the array
MaxNeighbours == 2
RuleVelocities == { <<Scale, 0>>, <<-2 * Scale, 0>>, <<0, Scale>> }
NeighbourOffsets == { <<5, 0>>, <<0, 10>>, <<-5, 0>>, <<40, 40>> }
Neighbours ==
    { BoidAt(<<SeerPosition[1] + o[1] * Scale, SeerPosition[2] + o[2] * Scale>>, v, 6 * Scale) :
        o \in NeighbourOffsets, v \in RuleVelocities \ {<<Scale, 0>>} }
NeighbourSeqs == UNION { [1..n -> Neighbours] : n \in 0..MaxNeighbours }

\* this.separation(boids), this.alignment(boids) or this.cohesion(boids)
CallRule ==
    /\ CallIdle
    /\ \E v \in RuleVelocities, others \in NeighbourSeqs, first \in BOOLEAN,
          rule \in {"separation", "alignment", "cohesion"} :
         LET this == BoidAt(SeerPosition, v, 6 * Scale)
             bs == IF first THEN <<this>> \o others ELSE others \o <<this>>
             self == IF first THEN 1 ELSE Len(bs)
         IN  /\ call' = [ method |-> rule, this |-> this, self |-> self, boids |-> bs,
                          counted |-> SeparationCounted(this, self, bs),
                          target |-> CohesionTarget(this, self, bs) ]
             /\ returned' = IF rule = "separation" THEN separation(this, self, bs)
                            ELSE IF rule = "alignment" THEN alignment(this, self, bs)
                            ELSE cohesion(this, self, bs)
    /\ UNCHANGED <<flockVars, heapVars>>

\* where the boid applyRules is called on stands, and the width and height of
\* the canvas: a wall in sight, no wall in sight, and next to the centre of a
\* narrow canvas
Stands == { <<SeerPosition, 50 * Scale, 200 * Scale>>,
            <<SeerPosition, 200 * Scale, 200 * Scale>>,
            << <<(75 * Scale) \div 2, 100 * Scale>>, 50 * Scale, 200 * Scale >> }

\* this.applyRules(boids, width, height); the boid after the call is returned
CallApplyRules ==
    /\ CallIdle
    /\ \E v \in RuleVelocities \cup {Zero}, others \in NeighbourSeqs, first \in BOOLEAN,
          stand \in Stands :
         LET this == BoidAt(stand[1], v, 6 * Scale)
             bs == IF first THEN <<this>> \o others ELSE others \o <<this>>
             self == IF first THEN 1 ELSE Len(bs)
         IN  /\ call' = [ method |-> "applyRules", this |-> this, self |-> self, boids |-> bs,
                          width |-> stand[2], height |-> stand[3] ]
             /\ returned' = applyRules(this, self, bs, stand[2], stand[3])
    /\ UNCHANGED <<flockVars, heapVars>>

\* the directions decideDirection returns to moveFlock, in steps of
\* Math.PI / 30: the boid's own direction, small and large turns to either
\* side, and NaN (the boid is not alone and sees no neighbour)
TurnDesired == {-29, -16, -1, 0, 1, 2, 3, 4, 14, 30, 31, 44, 46, 59, NaN}

\* one pass of the first loop of moveFlock of part_005 or part_004, up to the
\* bounds test: the turn toward desiredDirection and the step forward
CallMoveFlockPass ==
    /\ CallIdle
    /\ \E d \in SeerDirections \ {NaN}, desiredDirection \in TurnDesired,
          it \in Iterations \ {"Flock.js"} :
         LET this == DirBoid(SeerPosition[1], SeerPosition[2], d, 6 * Scale)
         IN  /\ call' = [ method |-> "moveFlock", this |-> this, iteration |-> it,
                          desiredDirection |-> desiredDirection ]
             /\ returned' = TurnAndAdvance(this, desiredDirection, MaxTurn(it), BoidSpeed(it))
    /\ UNCHANGED <<flockVars, heapVars>>

\* where the boid detectObstacles is called on stands on a display of 100 x
\* 100: next to each edge, in a corner and in the middle
ObstacleStands == { <<10, 50>>, <<90, 50>>, <<50, 10>>, <<50, 90>>, <<10, 10>>, <<50, 50>> }

\* the obstacles argument of detectObstacles: none, as moveFlock passes, or one
\* point
ObstacleLists == { << >>, << <<20 * Scale, 50 * Scale>> >> }

\* this.detectObstacles(obstacles, 100, 100)
CallDetectObstacles ==
    /\ CallIdle
    /\ \E at \in ObstacleStands, d \in SeerDirections \ {NaN}, obstacles \in ObstacleLists :
         LET this == DirBoid(at[1] * Scale, at[2] * Scale, d, 6 * Scale)
         IN  /\ call' = [ method |-> "detectObstacles", this |-> this,
                          obstacles |-> obstacles,
                          width |-> 100 * Scale, height |-> 100 * Scale ]
             /\ returned' = detectObstacles(this, obstacles, 100 * Scale, 100 * Scale)
    /\ UNCHANGED <<flockVars, heapVars>>

\* the other boids of a direction-based flock
DirNeighbours ==
    { DirBoid(SeerPosition[1] + o[1] * Scale, SeerPosition[2] + o[2] * Scale, 0, 6 * Scale) :
        o \in NeighbourOffsets }
DirNeighbourSeqs == UNION { [1..n -> DirNeighbours] : n \in 0..MaxNeighbours }

\* this.detectBoids(boids) of the direction-based boid
CallDetectBoids ==
    /\ CallIdle
    /\ \E d \in SeerDirections \ {NaN}, others \in DirNeighbourSeqs, first \in BOOLEAN :
         LET this == DirBoid(SeerPosition[1], SeerPosition[2], d, 6 * Scale)
             bs == IF first THEN <<this>> \o others ELSE others \o <<this>>
             self == IF first THEN 1 ELSE Len(bs)
         IN  /\ call' = [ method |-> "detectBoids", this |-> this, self |-> self, boids |-> bs ]
             /\ returned' = detectBoids(this, self, bs)
    /\ UNCHANGED <<flockVars, heapVars>>

\* the canvases addBoid is called on: wide, tall and square
AddBoidCanvases == { Canvas(200 * Scale, 100 * Scale, Scale),
                     Canvas(100 * Scale, 200 * Scale, Scale),
                     Canvas(100 * Scale, 100 * Scale, Scale) }

\* the coordinates passed to addBoid: left of, on, inside and right of the
\* canvas, and a missing argument
AddBoidCoordinates == {-10 * Scale, 0, 50 * Scale, 150 * Scale, 250 * Scale, Undefined}

\* flock.addBoid(x, y) on a flock of part_005
CallAddBoid ==
    /\ CallIdle
    /\ \E cv \in AddBoidCanvases, x \in AddBoidCoordinates, y \in AddBoidCoordinates,
          bs \in { << >>, <<DirBoid(SeerPosition[1], SeerPosition[2], 0, 3 * Scale)>> } :
         /\ call' = [ method |-> "addBoid", canvas |-> cv, boids |-> bs, x |-> x, y |-> y ]
         /\ returned' = addBoid(bs, cv, x, y, Half)
    /\ UNCHANGED <<flockVars, heapVars>>

CallNext ==
    \/ CallNormalize
    \/ CallLimit
    \/ CallCanSee
    \/ CallCanSeeByDirection
    \/ CallPointImpulse
    \/ CallRule
    \/ CallApplyRules
    \/ CallMoveFlockPass
    \/ CallDetectObstacles
    \/ CallDetectBoids
    \/ CallAddBoid

CallSpec == CallInit /\ [][CallNext]_vars

\* the neighbours the boid of the call sees
VisibleSet ==
    { i \in 1..Len(call.boids) :
        /\ i # call.self
        /\ canSee(call.this, call.boids[i].position[1], call.boids[i].position[2]) }

\* the squared distance from the boid of the call to its neighbour i
SquaredDistanceTo(i) ==
    LET d == subtract(call.boids[i].position, call.this.position)
    IN  d[1] * d[1] + d[2] * d[2]

\* the visible neighbours closer than the desired separation distance
\* size_self + size_neighbour + separationCoeff
TooClose ==
    { i \in VisibleSet :
        LET desired == call.this.size + call.boids[i].size + separationCoeff
        IN  SquaredDistanceTo(i) < desired * desired }

\* C17: a neighbour contributes to separation exactly when it is visible and
\* closer than size_self + size_neighbour + separationCoeff; with no
\* contributing neighbour the impulse is the zero vector
C17_SeparationContributors ==
    Called("separation") =>
        /\ { call.counted[k] : k \in 1..Len(call.counted) } = TooClose
        /\ TooClose = {} => returned = Zero

RECURSIVE SumOfSet(_, _)
\* the sum of the vectors f[i], i in the set S
SumOfSet(f, S) ==
    IF S = {} THEN Zero
    ELSE LET i == CHOOSE j \in S : TRUE
         IN  add(f[i], SumOfSet(f, S \ {i}))

\* the average of the vectors f[i] over the visible neighbours
AverageOverVisible(f) ==
    LET sum == SumOfSet(f, VisibleSet)
        count == Cardinality(VisibleSet)
    IN  scale(sum, FDiv(Scale, count * Scale))

\* C18: alignment returns (the average velocity of the visible neighbours,
\* normalized and scaled to this boid's speed) minus the current velocity,
\* limited to maxImpulse, and the zero vector when no neighbour is visible
C18_AlignmentAveragesVisible ==
    Called("alignment") =>
        IF VisibleSet = {}
        THEN returned = Zero
        ELSE LET average == AverageOverVisible([i \in 1..Len(call.boids) |->
                                                   call.boids[i].velocity])
                 speed == length(call.this.velocity)
             IN  returned = limit(subtract(scale(normalize(average), speed),
                                           call.this.velocity),
                                  call.this.maxImpulse)

\* alignment was called by a boid that sees one neighbour and not the other,
\* whose velocities differ, and returned a non-zero impulse
C18_Witness ==
    /\ Called("alignment")
    /\ Len(call.boids) = 3
    /\ Cardinality(VisibleSet) = 1
    /\ \E i \in VisibleSet, j \in 1..Len(call.boids) :
         /\ j # call.self /\ j \notin VisibleSet
         /\ call.boids[i].velocity # call.boids[j].velocity
    /\ returned # Zero

\* C19: the point cohesion passes to pointImpulse is the average of the
\* positions of the visible neighbours; with none visible the impulse is zero
C19_CohesionTargetIsAverage ==
    Called("cohesion") =>
        IF VisibleSet = {}
        THEN returned = Zero
        ELSE LET average == AverageOverVisible([i \in 1..Len(call.boids) |->
                                                   call.boids[i].position])
             IN  /\ call.target = average
                 /\ returned = pointImpulse(call.this, average)

\* the boid of the call after the impulses sep, align, coh and avoidWalls have
\* been applied to it in this order
Applied(sep, align, coh, avoidWalls) ==
    LET b1 == applyImpulse(call.this, sep, WeightSeparation)
        b2 == applyImpulse(b1, align, WeightAlignment)
        b3 == applyImpulse(b2, coh, WeightCohesion)
    IN  IF avoidWalls # False THEN applyImpulse(b3, avoidWalls, WeightAvoidance) ELSE b3

\* the boid of the call once its separation and alignment impulses are applied
AfterAlignment ==
    applyImpulse(applyImpulse(call.this, separation(call.this, call.self, call.boids),
                              WeightSeparation),
                 alignment(call.this, call.self, call.boids), WeightAlignment)

\* C21: within one applyRules call the four impulses are computed from the
\* boid's state at the start of the call: the boid after the call is the one
\* obtained by applying separation, alignment, cohesion and wall avoidance as
\* the unmodified boid computes them, all three neighbour rules seeing the
\* same neighbours
C21_ImpulsesFromSameState ==
    Called("applyRules") =>
        returned = Applied(separation(call.this, call.self, call.boids),
                           alignment(call.this, call.self, call.boids),
                           cohesion(call.this, call.self, call.boids),
                           wallAvoidance(call.this, call.width, call.height))

\* applyRules was called by a boid that would see other neighbours once its
\* alignment impulse is applied, and whose cohesion impulse is not zero
C21_Witness ==
    /\ Called("applyRules")
    /\ VisibleNeighbours(AfterAlignment, call.self, call.boids)
          # VisibleNeighbours(call.this, call.self, call.boids)
    /\ cohesion(call.this, call.self, call.boids) # Zero
    /\ returned.velocity # call.this.velocity

\* C22: applyRules applies the impulses one after another in the order
\* separation, alignment, cohesion, avoidance, each scaled by its weight (1,
\* 1.4, 1, 1.7), and clamps the velocity magnitude to maxImpulse after every
\* application; the last application is skipped when no wall is visible
C22_SequentialClampedComposition ==
    Called("applyRules") =>
        LET L(u) == limit(u, call.this.maxImpulse)
            sep == separation(call.this, call.self, call.boids)
            align == alignment(call.this, call.self, call.boids)
            coh == cohesion(call.this, call.self, call.boids)
            avoid == wallAvoidance(call.this, call.width, call.height)
            v1 == L(add(call.this.velocity, scale(sep, Scale)))
            v2 == L(add(v1, scale(align, (14 * Scale) \div 10)))
            v3 == L(add(v2, scale(coh, Scale)))
            v4 == IF SeesWall(call.this, call.width, call.height)
                  THEN L(add(v3, scale(avoid, (17 * Scale) \div 10)))
                  ELSE v3
        IN  /\ returned.velocity = v4
            /\ \A u \in {v1, v2, v3, v4} : FLe(length(u), call.this.maxImpulse)

\* C23: applyRules changes only the velocity of the boid it is called on (its
\* position and every other boid are unchanged); move changes only the position
\* of the boid it is called on, to position + velocity, and not its velocity
C23_FrameConditions ==
    [][ /\ pc = "rules" =>
             /\ Len(boids') = Len(boids)
             /\ \A i \in 1..Len(boids) :
                  IF i = idx + 1
                  THEN boids'[i] = [boids[i] EXCEPT !.velocity = boids'[i].velocity]
                  ELSE boids'[i] = boids[i]
        /\ pc = "move" =>
             boids' = [boids EXCEPT ![idx + 1].position =
                                       add(boids[idx + 1].position, boids[idx + 1].velocity)]
      ]_vars

\* the first boid's velocity was changed by its applyRules and the boid has
\* then moved by that velocity while the second boid has not moved yet
C23_Witness ==
    /\ iteration = "Flock.js"
    /\ pc = "move"
    /\ idx = 1
    /\ boids[1].velocity # start[1].velocity
    /\ boids[1].velocity # Zero
    /\ boids[1].position = add(start[1].position, boids[1].velocity)
    /\ boids[2].position = start[2].position

\* C24: in a moveFlock call of the direction-based flocks a boid's direction
\* changes by at most maxTurn in absolute value, whatever direction
\* decideDirection returned, and the boid advances by exactly boidSpeed along
\* its new direction
C24_TurnAtMostMaxTurn ==
    Called("moveFlock") =>
        LET turn == FSub(returned.direction, call.this.direction)
            boidSpeed == BoidSpeed(call.iteration)
            step == subtract(returned.position, call.this.position)
        IN  /\ IsFinite(turn)
            /\ Abs(turn) <= MaxTurn(call.iteration)
            /\ step = <<FMul(boidSpeed, Cos(returned.direction)),
                        FMul(boidSpeed, Sin(returned.direction))>>
            /\ Near(length(step), boidSpeed, 2 * (boidSpeed \div Scale) + 2)

\* C25: every safety point detectObstacles contributes for a visible edge is
\* position + (position - edgePoint) * danger, the formula of the obstacle
\* points: it lies on the far side of the boid from the edge point and strictly
\* farther from the boid than the reflection of the edge point about the
\* boid's position; decision.avoidance is the average of the safety points
C25_SafetyPointsBeyondReflection ==
    Called("detectObstacles") =>
        LET p == call.this.position
            n == Len(returned.safety)
        IN  /\ Len(returned.obstacles) = n
            /\ \A k \in 1..n :
                 LET away == subtract(p, returned.obstacles[k])
                     push == subtract(returned.safety[k], p)
                 IN  /\ returned.safety[k] = add(p, scale(away, danger))
                     /\ SameDirection(away, push)
                     /\ length(push) > length(away)
            /\ n > 0 =>
                 LET sum == SumOfSet(returned.safety, 1..n)
                 IN  returned.avoidance = <<FDiv(sum[1], n * Scale), FDiv(sum[2], n * Scale)>>

\* the position is outside the display of the canvas
Outside(position, cv) ==
    \/ FLt(position[1], 0) \/ FGt(position[1], cv.clientWidth)
    \/ FLt(position[2], 0) \/ FGt(position[2], cv.clientHeight)

\* the boids of the sequence bs that are not outside the display, in order
Remaining(bs, cv) ==
    LET inside == SelectIdx([i \in 1..Len(bs) |-> ~Outside(bs[i].position, cv)], 1, Len(bs))
    IN  [k \in 1..Len(inside) |-> bs[inside[k]]]

\* C26: in a tick of a culling moveFlock the boids removed are exactly the
\* boids whose position after moving is outside the bounds, however many they
\* are and wherever they stand in the array; every boid that is not outside
\* after moving is still in the flock after the tick, as it was after moving
C26_ExactCulling ==
    [][ (iteration # "Flock.js" /\ ticks' = ticks + 1) =>
          \E desired \in [1..Len(dboids) -> DesiredDirections] :
             LET after == AfterFirstLoop(dboids, desired, iteration)
                 kept == Remaining(after, canvas)
             IN  /\ left' = Len(after) - Len(kept)
                 /\ Len(dboids') >= Len(kept)
                 /\ SubSeq(dboids', 1, Len(kept)) = kept
                 /\ Len(dboids') = IF iteration = "part_004" THEN Len(kept) ELSE Len(after)
      ]_vars

\* both boids of a flock of two left the display in the same tick and were
\* replaced
C26_Witness ==
    /\ iteration = "part_005"
    /\ ticks > 0
    /\ sizeBefore = 2
    /\ left = 2
    /\ Len(dboids) = 2

\* the boid of the applyRules call after the four impulses have been applied
\* with the weight w for separation
AppliedWithSeparationWeight(w) ==
    LET b1 == applyImpulse(call.this, separation(call.this, call.self, call.boids), w)
        b2 == applyImpulse(b1, alignment(call.this, call.self, call.boids), WeightAlignment)
        b3 == applyImpulse(b2, cohesion(call.this, call.self, call.boids), WeightCohesion)
        avoidWalls == wallAvoidance(call.this, call.width, call.height)
    IN  IF avoidWalls # False THEN applyImpulse(b3, avoidWalls, WeightAvoidance) ELSE b3

WithoutSelf == Splice(call.boids, call.self)

\* C28: a boid never counts itself as a neighbour: separation, alignment,
\* cohesion and detectBoids return the same whether or not the boid is an
\* element of the boids array, and in a flock of a single boid the three rules
\* return the zero vector
C28_SelfExclusion ==
    /\ Called("separation") =>
          /\ returned = separation(call.this, 0, WithoutSelf)
          /\ Len(call.boids) = 1 => returned = Zero
    /\ Called("alignment") =>
          /\ returned = alignment(call.this, 0, WithoutSelf)
          /\ Len(call.boids) = 1 => returned = Zero
    /\ Called("cohesion") =>
          /\ returned = cohesion(call.this, 0, WithoutSelf)
          /\ Len(call.boids) = 1 => returned = Zero
    /\ Called("detectBoids") =>
          /\ returned = detectBoids(call.this, 0, WithoutSelf)
          /\ Len(returned) <= Len(call.boids) - 1

\* alignment was called by a boid that sees its own position and a neighbour,
\* and returned an impulse
C28_Witness ==
    /\ Called("alignment")
    /\ canSee(call.this, call.this.position[1], call.this.position[2])
    /\ VisibleSet # {}
    /\ returned # Zero

\* C29: addBoid(x, y) adds exactly one boid, and the boid it adds has its
\* position within [0, canvas.width] x [0, canvas.height], for every x and y
\* and every canvas width and height
C29_AddBoidClamps ==
    Called("addBoid") =>
        /\ Len(returned) = Len(call.boids) + 1
        /\ SubSeq(returned, 1, Len(call.boids)) = call.boids
        /\ LET position == returned[Len(returned)].position
           IN  /\ FLe(0, position[1]) /\ FLe(position[1], call.canvas.width)
               /\ FLe(0, position[2]) /\ FLe(position[2], call.canvas.height)

\* the target of the pointImpulse call is in the near-field case of the code:
\* not closer than vision.radius / 2 and not farther than pointImpulseCoeff
NearFieldTaken ==
    LET dist == length(subtract(<<call.x, call.y>>, call.this.position))
    IN  ~FLt(dist, FDiv(call.this.radius, 2 * Scale)) /\ FLe(dist, pointImpulseCoeff)

============================================================================
